---- MODULE Spec2Model ----
(***************************************************************************)
(* Model of scripts/generate_report.py: the Windows Updates report         *)
(* generator (http_get, parse_rss, extract_kbs, try_parse_date_rss,        *)
(* collect_updates, render_html, main).                                    *)
(*                                                                         *)
(* Text is a sequence of one-character strings.  Instants are whole hours  *)
(* since the Unix epoch (UTC).  Delays are in units of 1/20 second.        *)
(***************************************************************************)
EXTENDS Integers, Sequences, FiniteSets, TLC

VARIABLES
    pc,           \* position of the running code
    now,          \* datetime.now(timezone.utc) read by collect_updates
    cutoff,       \* collect_updates: cutoff
    feed,         \* collect_updates: index into FEEDS of the feed in progress
    url,          \* http_get: url
    attempts,     \* http_get: attempts
    base_delay,   \* http_get: base_delay
    i,            \* http_get: loop variable i
    last,         \* http_get: last
    result,       \* http_get: what it returned (which response's body) or raised
    requests,     \* history: number of urlopen calls of this http_get call
    failed,       \* history: number of failed urlopen calls of this call
    last_failure, \* history: what the latest failed urlopen call raised
    sleeps,       \* history: the time.sleep arguments of this call
    items,        \* collect_updates: items
    rows,         \* collect_updates: rows
    unique,       \* collect_updates: unique (what it returns)
    html_out,     \* render_html: the <tbody> rows of the document
    written,      \* main: content of OUTPUT_FILE
    exit_status,  \* main: process exit status
    fetched,      \* history: the feeds http_get was called for, in order
    delivered,    \* history: <<feed, item>> of every item of a well-formed body
    bad,          \* history: feeds whose fetch failed or whose body was malformed
    text,         \* extract_kbs: text
    kbs           \* extract_kbs: returned list

vars == <<pc, now, cutoff, feed, url, attempts, base_delay, i, last, result,
          requests, failed, last_failure, sleeps, items, rows, unique, html_out,
          written, exit_status, fetched, delivered, bad, text, kbs>>

httpVars == <<url, attempts, base_delay, i, last, result, requests, failed,
              last_failure, sleeps>>
runVars == <<now, cutoff, feed, items, rows, unique, html_out, written,
             exit_status, fetched, delivered, bad>>
kbVars == <<text, kbs>>

None == "None"

\* OUTPUT_FILE before main has written it
NoFile == [exists |-> FALSE, tbody |-> <<>>]

\* the exit status of a process that has not exited
Running == -1

-----------------------------------------------------------------------------
(* Characters and strings *)

Digits == {"0", "1", "2", "3", "4", "5", "6", "7", "8", "9"}

Letters == {"B", "K", "S", "W", "a", "b", "d", "e", "f", "g", "i", "k", "l",
            "m", "n", "o", "p", "q", "r", "s", "t", "u", "v", "w", "x"}

EmDash == "U+2014"

\* The characters of the model in ascending code point order.
CharOrder ==
    <<" ", "\"", "#", "&", "'", "-", "/", "0", "1", "2", "3", "4", "5", "6", "7",
      "8", "9", ";", "<", ">", "B", "K", "S", "W", "_", "a", "b", "d", "e", "f",
      "g", "i", "k", "l", "m", "n", "o", "p", "q", "r", "s", "t", "u", "v", "w",
      "x", EmDash>>

Ord(c) == CHOOSE n \in 1..Len(CharOrder) : CharOrder[n] = c

\* str.upper on one character
Upper(c) ==
    CASE c = "a" -> "A" [] c = "b" -> "B" [] c = "d" -> "D" [] c = "e" -> "E"
      [] c = "f" -> "F" [] c = "g" -> "G" [] c = "i" -> "I" [] c = "k" -> "K"
      [] c = "l" -> "L" [] c = "m" -> "M" [] c = "n" -> "N" [] c = "o" -> "O"
      [] c = "p" -> "P" [] c = "q" -> "Q" [] c = "r" -> "R" [] c = "s" -> "S"
      [] c = "t" -> "T" [] c = "u" -> "U" [] c = "v" -> "V" [] c = "w" -> "W"
      [] c = "x" -> "X" [] OTHER -> c

UpperStr(s) == [n \in 1..Len(s) |-> Upper(s[n])]

\* Python's str comparison: lexicographic by code point, a proper prefix first.
RECURSIVE StrLess(_, _)
StrLess(a, b) ==
    IF b = <<>> THEN FALSE
    ELSE IF a = <<>> THEN TRUE
    ELSE IF Head(a) # Head(b) THEN Ord(Head(a)) < Ord(Head(b))
    ELSE StrLess(Tail(a), Tail(b))

\* list comparison of lists of str (tuple(kbs))
RECURSIVE ListLess(_, _)
ListLess(a, b) ==
    IF b = <<>> THEN FALSE
    ELSE IF a = <<>> THEN TRUE
    ELSE IF Head(a) # Head(b) THEN StrLess(Head(a), Head(b))
    ELSE ListLess(Tail(a), Tail(b))

\* sorted(S) for a set S of strings
RECURSIVE SortedStrs(_)
SortedStrs(S) ==
    IF S = {} THEN <<>>
    ELSE LET m == CHOOSE x \in S : \A y \in S \ {x} : StrLess(x, y)
         IN <<m>> \o SortedStrs(S \ {m})

Range(s) == {s[n] : n \in 1..Len(s)}

-----------------------------------------------------------------------------
(* extract_kbs *)

\* \w of the regular expression
IsWordChar(c) == c \in Letters \cup Digits \cup {"_"}

\* index of the last character of the run of digits that starts at p
RECURSIVE DigitRunEnd(_, _)
DigitRunEnd(s, p) ==
    IF p < Len(s) /\ s[p + 1] \in Digits THEN DigitRunEnd(s, p + 1) ELSE p

\* the number of digits KB_RE asks for after "KB": \d+
KBDigitsOk(n) == n >= 1

\* KB_RE matched at position p of s: the index of the match's last character,
\* 0 when there is no match at p.  \b before K: no word character before p;
\* \d+ is greedy and \b after it needs a non-word character or the end, which
\* no shorter run of digits can offer.
KBMatchEnd(s, p) ==
    IF /\ p + 2 <= Len(s)
       /\ (p = 1 \/ ~IsWordChar(s[p - 1]))
       /\ Upper(s[p]) = "K"
       /\ Upper(s[p + 1]) = "B"
       /\ s[p + 2] \in Digits
    THEN LET e == DigitRunEnd(s, p + 2)
         IN IF KBDigitsOk(e - (p + 1)) /\ (e = Len(s) \/ ~IsWordChar(s[e + 1]))
            THEN e ELSE 0
    ELSE 0

\* KB_RE.finditer(text): the matches, left to right, not overlapping
RECURSIVE KBFindIter(_, _)
KBFindIter(s, p) ==
    IF p > Len(s) THEN <<>>
    ELSE LET e == KBMatchEnd(s, p)
         IN IF e = 0 THEN KBFindIter(s, p + 1)
            ELSE <<SubSeq(s, p, e)>> \o KBFindIter(s, e + 1)

extract_kbs(s) == SortedStrs({UpperStr(m) : m \in Range(KBFindIter(s, 1))})

-----------------------------------------------------------------------------
(* Specification of extract_kbs on its own: every text over KBAlphabet of    *)
(* at most MaxTextLen characters.                                            *)

MaxTextLen == 5

KBAlphabet == {"K", "k", "B", "1", "2", " ", "x"}

Texts == UNION {[1..n -> KBAlphabet] : n \in 0..MaxTextLen}

IdleHttp ==
    /\ url = None /\ attempts = 0 /\ base_delay = 0 /\ i = 0 /\ last = None
    /\ result = None /\ requests = 0 /\ failed = 0 /\ last_failure = None
    /\ sleeps = <<>>

IdleRun ==
    /\ now = 0 /\ cutoff = 0 /\ feed = 0 /\ items = <<>> /\ rows = <<>>
    /\ unique = <<>> /\ html_out = <<>> /\ written = NoFile
    /\ exit_status = Running /\ fetched = <<>> /\ delivered = <<>> /\ bad = {}

InitKB ==
    /\ pc = "extract_kbs"
    /\ text \in Texts
    /\ kbs = <<>>
    /\ IdleHttp
    /\ IdleRun

ExtractKbs ==
    /\ pc = "extract_kbs"
    /\ kbs' = extract_kbs(text)
    /\ pc' = "extract_kbs_done"
    /\ UNCHANGED <<text, httpVars, runVars>>

NextKB == ExtractKbs

SpecKB == InitKB /\ [][NextKB]_vars

\* a KB identifier as the data model defines it: KB and 6 to 8 digits
IsKBId(e) ==
    /\ Len(e) \in 8..10
    /\ e[1] = "K" /\ e[2] = "B"
    /\ \A n \in 3..Len(e) : e[n] \in Digits

KbsSortedNoDup == \A m, n \in 1..Len(kbs) : m < n => StrLess(kbs[m], kbs[n])

KbsUpper == \A n \in 1..Len(kbs) : kbs[n] = UpperStr(kbs[n])

\* C1: for every input text, extract_kbs returns a list that is sorted
\* ascending, without duplicates, uppercased, and whose every element is KB
\* followed by 6 to 8 digits.
C1_ExtractKbsWellFormed ==
    pc = "extract_kbs_done" =>
        /\ KbsSortedNoDup
        /\ KbsUpper
        /\ \A n \in 1..Len(kbs) : IsKBId(kbs[n])

\* The part of C1 the code does meet: sorted, no duplicates, uppercased,
\* every element KB followed by at least one digit.
KbsLoose ==
    pc = "extract_kbs_done" =>
        /\ KbsSortedNoDup
        /\ KbsUpper
        /\ \A n \in 1..Len(kbs) :
              /\ Len(kbs[n]) >= 3
              /\ kbs[n][1] = "K" /\ kbs[n][2] = "B"
              /\ \A m \in 3..Len(kbs[n]) : kbs[n][m] \in Digits

-----------------------------------------------------------------------------
(* http_get *)

DefaultAttempts == 5

\* base_delay = 0.75 s, in units of 1/20 s
DefaultBaseDelay == 15

\* min(8.0, ...): 8 s in units of 1/20 s
MaxSleep == 160

\* i * 0.1: 0.1 s in units of 1/20 s
JitterStep == 2

\* what urlopen or resp.read() can raise
FailureKinds == {"HTTPError 404", "HTTPError 500", "URLError", "timeout"}

\* the failures the feeds of a run meet
RunFailureKinds == {"HTTPError 404", "timeout"}

RECURSIVE Pow2(_)
Pow2(n) == IF n = 0 THEN 1 ELSE 2 * Pow2(n - 1)

Min(a, b) == IF a < b THEN a ELSE b

\* the argument of time.sleep after the failure of attempt number n (from 0)
Backoff(base, n) == Min(MaxSleep, base * Pow2(n) + n * JitterStep)

\* for i in range(attempts): another iteration follows
InRange(n, a) == n < a

\* a 404 is let through instead of being retried
CaughtUnless404(e) == e # "HTTPError 404"

\* except Exception: every failure of the request is caught
Caught(e) == TRUE

\* the call http_get(u, attempts=a, base_delay=b) up to its loop
CallHttpGet(u, a, b) ==
    /\ url' = u
    /\ attempts' = a
    /\ base_delay' = b
    /\ i' = 0
    /\ last' = None
    /\ result' = None
    /\ requests' = 0
    /\ failed' = 0
    /\ last_failure' = None
    /\ sleeps' = <<>>

\* one iteration whose request succeeds: return resp.read(), the body of the
\* response to this request (its bytes are looked at by the caller)
HttpOk ==
    /\ pc = "http_get"
    /\ InRange(i, attempts)
    /\ requests' = requests + 1
    /\ result' = [kind |-> "return", response |-> requests + 1]
    /\ pc' = "http_returned"
    /\ UNCHANGED <<url, attempts, base_delay, i, last, failed, last_failure, sleeps>>
    /\ UNCHANGED <<runVars, kbVars>>

\* one iteration whose request fails with e: remember it, sleep, go on
HttpFail(e) ==
    /\ pc = "http_get"
    /\ InRange(i, attempts)
    /\ requests' = requests + 1
    /\ failed' = failed + 1
    /\ last_failure' = e
    /\ IF Caught(e)
       THEN /\ last' = e
            /\ sleeps' = Append(sleeps, Backoff(base_delay, i))
            /\ i' = i + 1
            /\ UNCHANGED <<pc, result>>
       ELSE /\ result' = [kind |-> "raise", url |-> url, cause |-> e]
            /\ pc' = "http_raised"
            /\ UNCHANGED <<last, sleeps, i>>
    /\ UNCHANGED <<url, attempts, base_delay>>
    /\ UNCHANGED <<runVars, kbVars>>

\* the loop is over: raise RuntimeError(f"Failed to fetch {url}: {last}")
HttpRaise ==
    /\ pc = "http_get"
    /\ ~InRange(i, attempts)
    /\ result' = [kind |-> "raise", url |-> url, cause |-> last]
    /\ pc' = "http_raised"
    /\ UNCHANGED <<url, attempts, base_delay, i, last, requests, failed,
                   last_failure, sleeps>>
    /\ UNCHANGED <<runVars, kbVars>>

-----------------------------------------------------------------------------
(* parse_rss, try_parse_date_rss and the text clean-up of collect_updates *)

\* str.strip
RECURSIVE LStrip(_)
LStrip(s) == IF s # <<>> /\ Head(s) = " " THEN LStrip(Tail(s)) ELSE s

RECURSIVE RStrip(_)
RStrip(s) ==
    IF s # <<>> /\ s[Len(s)] = " " THEN RStrip(SubSeq(s, 1, Len(s) - 1)) ELSE s

Strip(s) == RStrip(LStrip(s))

\* A feed body is [xml_ok, items]: xml_ok is whether ET.fromstring parses it,
\* items are its <item> elements, each [title, link, pubDate, description]
\* with what findtext(...) or "" gives (an absent element reads as "").
parse_rss(body) ==
    IF ~body.xml_ok THEN <<>>
    ELSE [n \in 1..Len(body.items) |->
            [title |-> Strip(body.items[n].title),
             link |-> Strip(body.items[n].link),
             pubDate |-> body.items[n].pubDate,
             description |-> Strip(body.items[n].description)]]

\* A pubDate text is [form, dow, zone, t]: form "rfc822" is
\* "[Www, ]DD Mon YYYY HH:MM:SS zone" (dow: the weekday is there; t: the
\* instant its date and clock fields name), any other form is a text of
\* another shape ("Nov 06, 2025", "").
fmts ==
    <<"%a, %d %b %Y %H:%M:%S %Z",
      "%a, %d %b %Y %H:%M:%S GMT",
      "%a, %d %b %Y %H:%M:%S +0000",
      "%d %b %Y %H:%M:%S %Z">>

\* what strptime's %Z takes: UTC, GMT and time.tzname (UTC where the job runs)
ZoneNames == {"UTC", "GMT"}

StrptimeOk(s, f) ==
    /\ s.form = "rfc822"
    /\ CASE f = "%a, %d %b %Y %H:%M:%S %Z" -> s.dow /\ s.zone \in ZoneNames
         [] f = "%a, %d %b %Y %H:%M:%S GMT" -> s.dow /\ s.zone = "GMT"
         [] f = "%a, %d %b %Y %H:%M:%S +0000" -> s.dow /\ s.zone = "+0000"
         [] f = "%d %b %Y %H:%M:%S %Z" -> ~s.dow /\ s.zone \in ZoneNames

Epoch == 0

\* the fallback is the current instant instead of the epoch
UnknownDateNow == now

\* return datetime(1970, 1, 1, tzinfo=timezone.utc)
UnknownDate == Epoch

RECURSIVE TryFormats(_, _)
TryFormats(s, n) ==
    IF n > Len(fmts) THEN UnknownDate
    ELSE IF StrptimeOk(s, fmts[n]) THEN s.t
    ELSE TryFormats(s, n + 1)

try_parse_date_rss(s) == TryFormats(s, 1)

\* index of the first ">" of s at or after p, 0 when there is none
RECURSIVE FindGt(_, _)
FindGt(s, p) ==
    IF p > Len(s) THEN 0 ELSE IF s[p] = ">" THEN p ELSE FindGt(s, p + 1)

\* re.sub("<[^>]+>", " ", s) from position p on
RECURSIVE SubTags(_, _)
SubTags(s, p) ==
    IF p > Len(s) THEN <<>>
    ELSE LET q == FindGt(s, p + 1)
         IN IF s[p] = "<" /\ q >= p + 2
            THEN <<" ">> \o SubTags(s, q + 1)
            ELSE <<s[p]>> \o SubTags(s, p + 1)

\* re.sub(r"\s+", " ", s)
RECURSIVE SubSpaces(_)
SubSpaces(s) ==
    IF s = <<>> THEN <<>>
    ELSE IF Head(s) = " " THEN <<" ">> \o SubSpaces(LStrip(s))
    ELSE <<Head(s)>> \o SubSpaces(Tail(s))

\* clean_desc: the title, or the description without markup when it is empty
CleanDesc(title, desc) ==
    IF title = <<>> /\ desc # <<>> THEN Strip(SubSpaces(SubTags(desc, 1)))
    ELSE title

-----------------------------------------------------------------------------
(* collect_updates *)

DAYS_BACK == 30

HoursPerDay == 24

ReleaseHealth == <<"/", "r", "e", "l", "e", "a", "s", "e", "-", "h", "e", "a", "l", "t", "h", "/">>

ALL_FEEDS ==
    <<[product |-> <<"W", "i", "n", "d", "o", "w", "s", " ", "1", "1">>,
       url |-> "Feed.aspx?Product=Windows%2011", health |-> ReleaseHealth],
      [product |-> <<"W", "i", "n", "d", "o", "w", "s", " ", "1", "0">>,
       url |-> "Feed.aspx?Product=Windows%2010", health |-> ReleaseHealth],
      [product |-> <<"W", "i", "n", "d", "o", "w", "s", " ", "S", "e", "r", "v", "e", "r", " ", "2", "0", "2", "2">>,
       url |-> "Feed.aspx?Product=Windows%20Server%202022", health |-> ReleaseHealth],
      [product |-> <<"W", "i", "n", "d", "o", "w", "s", " ", "S", "e", "r", "v", "e", "r", " ", "2", "0", "1", "9">>,
       url |-> "Feed.aspx?Product=Windows%20Server%202019", health |-> ReleaseHealth],
      [product |-> <<"W", "i", "n", "d", "o", "w", "s", " ", "S", "e", "r", "v", "e", "r", " ", "2", "0", "1", "6">>,
       url |-> "Feed.aspx?Product=Windows%20Server%202016", health |-> ReleaseHealth]>>

\* the model runs with the first NumFeeds entries of the configured list
NumFeeds == 2

FEEDS == SubSeq(ALL_FEEDS, 1, NumFeeds)

\* the comparison the wrong way round
BeforeCutoffReversed(dt, c) == dt > c

\* if dt < cutoff: continue
BeforeCutoff(dt, c) == dt < c

\* kbs or ["—"]
KbsOrDash(ks) == IF ks = <<>> THEN <<<<EmDash>>>> ELSE ks

\* the row the loop body appends for item it of feed k
RowOf(k, it) ==
    [product |-> FEEDS[k].product,
     description |-> CleanDesc(it.title, it.description),
     kbs |-> KbsOrDash(extract_kbs(it.title \o <<" ">> \o it.description)),
     date |-> try_parse_date_rss(it.pubDate),
     source |-> "Update Catalog RSS",
     source_link |-> it.link,
     health_link |-> FEEDS[k].health]

\* for it in items: the rows appended to rows
RECURSIVE ItemLoop(_, _, _)
ItemLoop(k, its, c) ==
    IF its = <<>> THEN <<>>
    ELSE LET it == Head(its)
         IN (IF BeforeCutoff(try_parse_date_rss(it.pubDate), c)
             THEN <<>> ELSE <<RowOf(k, it)>>)
            \o ItemLoop(k, Tail(its), c)

\* the key with the source link in it
DedupeKeyWithLink(r) == <<r.product, r.description, r.kbs, r.source_link>>

\* the key with the release date in it
DedupeKeyWithDate(r) == <<r.product, r.description, r.kbs, r.date>>

\* key = (r["product"], r["description"], tuple(r["kbs"]))
DedupeKey(r) == <<r.product, r.description, r.kbs>>

\* for r in rows: if key in seen: continue; seen.add(key); unique.append(r)
RECURSIVE DedupeLoop(_, _)
DedupeLoop(rs, seen) ==
    IF rs = <<>> THEN <<>>
    ELSE LET r == Head(rs)
         IN IF DedupeKey(r) \in seen
            THEN DedupeLoop(Tail(rs), seen)
            ELSE <<r>> \o DedupeLoop(Tail(rs), seen \cup {DedupeKey(r)})

\* the sort without reverse=True
SortsBeforeAscending(a, b) == a.date < b.date

\* key=lambda r: r["date"], reverse=True: a goes before b
SortsBefore(a, b) == a.date > b.date

\* list.sort is stable: r goes after every element that does not sort after it
RECURSIVE InsertSorted(_, _)
InsertSorted(s, r) ==
    IF s = <<>> THEN <<r>>
    ELSE IF SortsBefore(r, Head(s)) THEN <<r>> \o s
    ELSE <<Head(s)>> \o InsertSorted(Tail(s), r)

RECURSIVE StableSort(_)
StableSort(s) ==
    IF s = <<>> THEN <<>>
    ELSE InsertSorted(StableSort(SubSeq(s, 1, Len(s) - 1)), s[Len(s)])

-----------------------------------------------------------------------------
(* render_html: the rows of the document's <tbody> *)

\* html.escape(s, quote=True) on one character
EscapeChar(c) ==
    CASE c = "&" -> <<"&", "a", "m", "p", ";">>
      [] c = "<" -> <<"&", "l", "t", ";">>
      [] c = ">" -> <<"&", "g", "t", ";">>
      [] c = "\"" -> <<"&", "q", "u", "o", "t", ";">>
      [] c = "'" -> <<"&", "#", "x", "2", "7", ";">>
      [] OTHER -> <<c>>

RECURSIVE html_escape(_)
html_escape(s) ==
    IF s = <<>> THEN <<>> ELSE EscapeChar(Head(s)) \o html_escape(Tail(s))

\* dt.strftime("%b %d, %Y"): the calendar day of the instant
fmt_date(dt) == dt \div HoursPerDay

\* the <span class="kb"> elements of a row, or the dash when there is none
KbCell(ks) ==
    LET spans == [n \in 1..Len(ks) |-> html_escape(ks[n])]
    IN IF spans = <<>> THEN <<<<EmDash>>>> ELSE spans

\* one <tr> of body_rows
BodyRow(r) ==
    [tr |-> "data",
     product |-> html_escape(r.product),
     description |-> html_escape(r.description),
     kbs |-> KbCell(r.kbs),
     health_link |-> html_escape(r.health_link),
     date |-> fmt_date(r.date),
     source_link |-> html_escape(r.source_link),
     source |-> r.source]

\* <tr><td colspan="6" class="muted">No updates in the selected window.</td></tr>
PlaceholderRow == [tr |-> "placeholder"]

\* the join without the placeholder
TBodyJoinOnly(body_rows) == body_rows

\* ''.join(body_rows) if body_rows else the placeholder row
TBody(body_rows) == IF body_rows # <<>> THEN body_rows ELSE <<PlaceholderRow>>

render_html(rs) == TBody([n \in 1..Len(rs) |-> BodyRow(rs[n])])

-----------------------------------------------------------------------------
(* The run: main, collect_updates, render_html, the write of OUTPUT_FILE *)

\* the hour the run starts at
RunStart == 489000

\* the instants of the items a feed can hold, relative to the run's cutoff
Recent == RunStart - HoursPerDay
AtCutoff == RunStart - DAYS_BACK * HoursPerDay
TooOld == RunStart - DAYS_BACK * HoursPerDay - 1

KB5044384 == <<"K", "B", "5", "0", "4", "4", "3", "8", "4">>

Rfc822(dow, zone, t) == [form |-> "rfc822", dow |-> dow, zone |-> zone, t |-> t]

RawItems ==
    { \* an update
      [title |-> KB5044384, link |-> <<"/", "a">>,
       pubDate |-> Rfc822(TRUE, "GMT", Recent), description |-> <<>>],
      \* the same update under another link
      [title |-> KB5044384, link |-> <<"/", "b", "&", "x">>,
       pubDate |-> Rfc822(TRUE, "GMT", Recent), description |-> <<>>],
      \* the same update dated at the cutoff, without a weekday
      [title |-> KB5044384, link |-> <<"/", "a">>,
       pubDate |-> Rfc822(FALSE, "UTC", AtCutoff), description |-> <<>>],
      \* another update of the same day: no title, markup and a short KB
      \* number in the padded description
      [title |-> <<>>, link |-> <<"/", "a">>,
       pubDate |-> Rfc822(TRUE, "+0000", Recent),
       description |-> <<" ", "<", "b", ">", "f", "i", "x", "<", "/", "b", ">",
                         " ", "k", "b", "1", "2", " ">>],
      \* a date no format matches
      [title |-> KB5044384, link |-> <<"/", "a">>,
       pubDate |-> [form |-> "prose", dow |-> FALSE, zone |-> "", t |-> Recent],
       description |-> <<>>],
      \* an update older than the window
      [title |-> KB5044384, link |-> <<"/", "a">>,
       pubDate |-> Rfc822(TRUE, "GMT", TooOld), description |-> <<>>] }

\* at most this many items come back from the feeds of one run
MaxItems == 3

Malformed == [xml_ok |-> FALSE, items |-> <<>>]

\* the bodies of at most n items
Bodies(n) ==
    {Malformed} \cup
    {[xml_ok |-> TRUE, items |-> s] : s \in UNION {[1..m -> RawItems] : m \in 0..n}}

\* the for loop of collect_updates reaches feed k: data = http_get(feed_url),
\* or the loop is over
NextFeed(k) ==
    /\ feed' = k
    /\ IF k <= Len(FEEDS)
       THEN /\ CallHttpGet(FEEDS[k].url, DefaultAttempts, DefaultBaseDelay)
            /\ fetched' = Append(fetched, k)
            /\ pc' = "http_get"
       ELSE /\ pc' = "dedupe"
            /\ url' = None /\ attempts' = 0 /\ base_delay' = 0 /\ i' = 0
            /\ last' = None /\ result' = None /\ requests' = 0 /\ failed' = 0
            /\ last_failure' = None /\ sleeps' = <<>>
            /\ UNCHANGED fetched

\* main calls collect_updates: cutoff, rows = [], the first feed
Start ==
    /\ pc = "main"
    /\ cutoff' = now - DAYS_BACK * HoursPerDay
    /\ rows' = <<>>
    /\ NextFeed(1)
    /\ UNCHANGED <<now, items, unique, html_out, written, exit_status,
                   delivered, bad, kbVars>>

\* the except clause leaves items as the previous feed set it
ItemsKept(previous) == previous

\* except Exception: items = []
ItemsOnFailure(previous) == <<>>

\* http_get returned data: parse_rss, the loop over the items, the next feed
FeedFetched(data) ==
    /\ pc = "http_returned"
    /\ items' = parse_rss(data)
    /\ rows' = rows \o ItemLoop(feed, items', cutoff)
    /\ delivered' = delivered \o
          [n \in 1..Len(data.items) |-> <<feed, data.items[n]>>]
    /\ bad' = IF data.xml_ok THEN bad ELSE bad \cup {feed}
    /\ NextFeed(feed + 1)
    /\ UNCHANGED <<now, cutoff, unique, html_out, written, exit_status, kbVars>>

\* http_get raised: the except clause, the loop over the items, the next feed
FeedFailed ==
    /\ pc = "http_raised"
    /\ items' = ItemsOnFailure(items)
    /\ rows' = rows \o ItemLoop(feed, items', cutoff)
    /\ bad' = bad \cup {feed}
    /\ NextFeed(feed + 1)
    /\ UNCHANGED <<now, cutoff, unique, html_out, written, exit_status,
                   delivered, kbVars>>

\* the end of collect_updates: dedupe, sort, return unique (rows is kept as
\* it was when the function returned)
DedupeAndSort ==
    /\ pc = "dedupe"
    /\ unique' = StableSort(DedupeLoop(rows, {}))
    /\ items' = <<>>
    /\ pc' = "render"
    /\ UNCHANGED <<now, cutoff, feed, rows, html_out, written, exit_status,
                   fetched, delivered, bad, httpVars, kbVars>>

\* html_text = render_html(rows)
Render ==
    /\ pc = "render"
    /\ html_out' = render_html(unique)
    /\ pc' = "write"
    /\ UNCHANGED <<now, cutoff, feed, items, rows, unique, written, exit_status,
                   fetched, delivered, bad, httpVars, kbVars>>

\* the file is written; main returns and the process exits with status 0
WriteOk ==
    /\ pc = "write"
    /\ written' = [exists |-> TRUE, tbody |-> html_out]
    /\ exit_status' = 0
    /\ pc' = "exit"
    /\ UNCHANGED <<now, cutoff, feed, items, rows, unique, html_out, fetched,
                   delivered, bad, httpVars, kbVars>>

\* open or write raises: except Exception: sys.exit(1)
WriteFails ==
    /\ pc = "write"
    /\ exit_status' = 1
    /\ pc' = "exit"
    /\ UNCHANGED <<now, cutoff, feed, items, rows, unique, html_out, written,
                   fetched, delivered, bad, httpVars, kbVars>>

Init ==
    /\ pc = "main"
    /\ now = RunStart
    /\ cutoff = 0 /\ feed = 0 /\ items = <<>> /\ rows = <<>> /\ unique = <<>>
    /\ html_out = <<>> /\ written = NoFile /\ exit_status = Running
    /\ fetched = <<>> /\ delivered = <<>> /\ bad = {}
    /\ IdleHttp
    /\ text = <<>> /\ kbs = <<>>

Next ==
    \/ Start
    \/ HttpOk
    \/ \E e \in RunFailureKinds : HttpFail(e)
    \/ HttpRaise
    \/ \E data \in Bodies(MaxItems - Len(delivered)) : FeedFetched(data)
    \/ FeedFailed
    \/ DedupeAndSort
    \/ Render
    \/ WriteOk
    \/ WriteFails

Spec == Init /\ [][Next]_vars

-----------------------------------------------------------------------------
(* http_get on its own, for any number of attempts and several base delays *)

MaxAttempts == 6

BaseDelays == {0, DefaultBaseDelay, 40}

InitHttp ==
    /\ pc = "http_get"
    /\ url \in {ALL_FEEDS[n].url : n \in 1..2}
    /\ attempts \in 0..MaxAttempts
    /\ base_delay \in BaseDelays
    /\ i = 0 /\ last = None /\ result = None
    /\ requests = 0 /\ failed = 0 /\ last_failure = None /\ sleeps = <<>>
    /\ IdleRun
    /\ text = <<>> /\ kbs = <<>>

NextHttp ==
    \/ HttpOk
    \/ \E e \in FailureKinds : HttpFail(e)
    \/ HttpRaise

SpecHttp == InitHttp /\ [][NextHttp]_vars

-----------------------------------------------------------------------------
(* Properties of the run *)

\* collect_updates has returned
Returned == pc \in {"render", "write", "exit"}

\* the run's start minus DAYS_BACK days
WindowStart == now - DAYS_BACK * HoursPerDay

Unparseable(s) == \A n \in 1..Len(fmts) : ~StrptimeOk(s, fmts[n])

\* delivered item d = <<feed, item>> is dated within the window
InWindow(d) == ~Unparseable(d[2].pubDate) /\ d[2].pubDate.t >= WindowStart

\* the record of delivered item d
RecordOf(d) ==
    RowOf(d[1], [title |-> Strip(d[2].title), link |-> Strip(d[2].link),
                 pubDate |-> d[2].pubDate,
                 description |-> Strip(d[2].description)])

SameUpdate(a, b) ==
    a.product = b.product /\ a.description = b.description /\ a.kbs = b.kbs

FullKey(r) == <<r.product, r.kbs, r.description, r.date>>

\* the indices of rows that no earlier row matches under Same
FirstSeen(Same(_, _)) ==
    {n \in 1..Len(rows) : \A m \in 1..(n - 1) : ~Same(rows[m], rows[n])}

\* C2: every record collect_updates returns has releaseDate >= cutoff, the
\* run's start minus DAYS_BACK days, whatever the feeds hold and however
\* the fetches end, items dated by the epoch fallback included.
C2_WithinWindow ==
    Returned => \A n \in 1..Len(unique) : unique[n].date >= WindowStart

\* C2: a finished run that was handed an item older than the window, an item
\* whose date is the epoch fallback and an item dated exactly at the cutoff.
C2_Witness ==
    /\ pc = "exit"
    /\ \E n \in 1..Len(delivered) :
          ~Unparseable(delivered[n][2].pubDate)
          /\ delivered[n][2].pubDate.t < WindowStart
    /\ \E n \in 1..Len(delivered) : Unparseable(delivered[n][2].pubDate)
    /\ \E n \in 1..Len(unique) : unique[n].date = WindowStart

\* C3: no two records of collect_updates' output share the key
\* (product, kbIds, description, releaseDate).
C3_UniqueKeys ==
    Returned =>
        \A m, n \in 1..Len(unique) : m # n => FullKey(unique[m]) # FullKey(unique[n])

\* C3: a finished run in which a duplicate was dropped and two records remain.
C3_Witness ==
    /\ pc = "exit"
    /\ Len(unique) >= 2
    /\ \E m, n \in 1..Len(rows) : m < n /\ FullKey(rows[m]) = FullKey(rows[n])

\* C4 as stated: deduplication keeps exactly the first-seen record of each
\* key (product, kbIds, description, releaseDate), so records that differ
\* only in releaseDate are both kept.
C4_FirstSeenPerFullKey ==
    Returned =>
        LET Same(a, b) == FullKey(a) = FullKey(b)
        IN /\ Len(unique) = Cardinality(FirstSeen(Same))
           /\ \A n \in FirstSeen(Same) : rows[n] \in Range(unique)

\* C4 as amended: deduplication keeps exactly the first-seen in-window record
\* of each key (product, description, kbIds); releaseDate and sourceLink are
\* not part of the key, so records that agree on the key and differ in
\* releaseDate or in sourceLink collapse to the first one.
C4_FirstSeenPerKey ==
    Returned =>
        /\ Len(unique) = Cardinality(FirstSeen(SameUpdate))
        /\ \A n \in FirstSeen(SameUpdate) : rows[n] \in Range(unique)

\* C4: a finished run whose rows held, after a first record, one that differs
\* from it only in releaseDate and one that differs only in sourceLink.
C4_Witness ==
    /\ pc = "exit"
    /\ \E k, m, n \in 1..Len(rows) :
          /\ k < m /\ k < n
          /\ SameUpdate(rows[k], rows[m]) /\ rows[k].date # rows[m].date
          /\ SameUpdate(rows[k], rows[n]) /\ rows[k].date = rows[n].date
          /\ rows[k].source_link # rows[n].source_link
          /\ rows[k] \in Range(unique)
          /\ rows[m] \notin Range(unique)
          /\ rows[n] \notin Range(unique)

\* C5: the list collect_updates returns is sorted non-increasing by
\* releaseDate.
C5_NewestFirst ==
    Returned =>
        \A n \in 1..(Len(unique) - 1) : unique[n].date >= unique[n + 1].date

\* C5: a finished run whose rows came in oldest first and were all kept.
C5_Witness ==
    /\ pc = "exit"
    /\ Len(unique) >= 2
    /\ Len(unique) = Len(rows)
    /\ \A n \in 1..(Len(rows) - 1) : rows[n].date < rows[n + 1].date

TieLess(a, b) ==
    \/ StrLess(a.product, b.product)
    \/ a.product = b.product /\ ListLess(a.kbs, b.kbs)

\* C6: records of equal releaseDate are ordered by product and then by kbIds,
\* in one direction throughout, whatever order the items came in.
C6_TiesByProductThenKbs ==
    Returned =>
        LET Ties == {n \in 1..(Len(unique) - 1) : unique[n].date = unique[n + 1].date}
        IN \/ \A n \in Ties : ~TieLess(unique[n + 1], unique[n])
           \/ \A n \in Ties : ~TieLess(unique[n], unique[n + 1])

\* C7: http_get issues at most attempts requests, returns the body of the
\* first request that succeeds and issues none after it, fails only after
\* attempts failed requests with the cause of the last one, whatever the
\* failures were, and never sleeps longer than the maximum delay.
C7_HttpGetRetries ==
    /\ requests <= attempts
    /\ Len(sleeps) = failed
    /\ \A n \in 1..Len(sleeps) :
          sleeps[n] <= MaxSleep
          /\ (sleeps[n] < MaxSleep =>
                sleeps[n] = base_delay * Pow2(n - 1) + (n - 1) * JitterStep)
    /\ pc = "http_get" => failed = requests
    /\ pc = "http_returned" =>
          /\ result.kind = "return"
          /\ result.response = requests
          /\ failed = requests - 1
    /\ pc = "http_raised" =>
          /\ result.kind = "raise"
          /\ result.url = url
          /\ result.cause = last_failure
          /\ requests = attempts
          /\ failed = attempts

\* C7: http_get with its default arguments failed after a last request that
\* met a 404, having slept the maximum delay.
C7_Witness ==
    /\ pc = "http_raised"
    /\ attempts = DefaultAttempts
    /\ base_delay = DefaultBaseDelay
    /\ result.cause = "HTTPError 404"
    /\ \E n \in 1..Len(sleeps) : sleeps[n] = MaxSleep

\* the records expected of what was delivered: the in-window items, in order
ExpectedRows ==
    LET Keep(d) == InWindow(d)
        kept == SelectSeq(delivered, Keep)
    IN [n \in 1..Len(kept) |-> RecordOf(kept[n])]

FeedsInOrder == [n \in 1..Len(fetched) |-> n] = fetched

\* C8 as stated: a feed whose fetch fails or whose body is malformed adds no
\* record and does not end the run; the feeds are fetched one after the other
\* in the configured order, each of them; the output holds every in-window
\* record of the feeds that succeeded; and when every feed failed the report
\* is written with the placeholder row and the exit status is 0.
C8_FailedFeedIsSkipped ==
    /\ FeedsInOrder
    /\ \A n \in 1..Len(rows) : \A k \in bad : rows[n].product # FEEDS[k].product
    /\ Returned =>
          LET expected == ExpectedRows
          IN /\ Len(fetched) = Len(FEEDS)
             /\ \A n \in 1..Len(expected) : expected[n] \in Range(unique)
    /\ pc = "exit" /\ bad = 1..Len(FEEDS) =>
          /\ written = [exists |-> TRUE, tbody |-> <<PlaceholderRow>>]
          /\ exit_status = 0

\* C8 as amended: as stated, but the output holds, of the in-window records
\* of the feeds that succeeded, the first-seen one of each key (product,
\* description, kbIds), and the exit status is 0 unless the report file
\* cannot be written: when every feed failed the run still renders the
\* placeholder row, and writes it and exits with status 0 when the write
\* succeeds, with status 1 when it fails.
C8_FailedFeedIsSkippedUpToDedupe ==
    /\ FeedsInOrder
    /\ \A n \in 1..Len(rows) : \A k \in bad : rows[n].product # FEEDS[k].product
    /\ pc = "dedupe" => rows = ExpectedRows
    /\ Returned =>
          LET expected == ExpectedRows
          IN /\ Len(fetched) = Len(FEEDS)
             /\ rows = expected
             /\ \A n \in 1..Len(expected) :
                   (\A m \in 1..(n - 1) : ~SameUpdate(expected[m], expected[n]))
                       => expected[n] \in Range(unique)
             /\ \A n \in 1..Len(unique) : unique[n] \in Range(expected)
    /\ pc \in {"write", "exit"} /\ bad = 1..Len(FEEDS) =>
          html_out = <<PlaceholderRow>>
    /\ pc = "exit" =>
          \/ exit_status = 0 /\ written = [exists |-> TRUE, tbody |-> html_out]
          \/ exit_status = 1 /\ written = NoFile

\* C8: a finished run whose first feed failed, whose second feed was fetched
\* and gave records, and whose report was written.
C8_Witness ==
    /\ pc = "exit"
    /\ 1 \in bad
    /\ 2 \notin bad
    /\ \E n \in 1..Len(unique) : unique[n].product = FEEDS[2].product
    /\ exit_status = 0
    /\ written.exists

\* C9 as stated: an item whose date matches no format gets the epoch as its
\* date and is kept: its record is in the output, after every record of a
\* later date.
C9_UnparseableDateKept ==
    Returned =>
        \A n \in 1..Len(delivered) :
            Unparseable(delivered[n][2].pubDate) =>
                \E m \in 1..Len(unique) :
                    /\ unique[m].date = Epoch
                    /\ SameUpdate(unique[m], RecordOf(delivered[n]))
                    /\ \A j \in (m + 1)..Len(unique) : unique[j].date = Epoch

\* C9 as amended: an item whose date matches no format gets the epoch as its
\* date and, the epoch being before the cutoff of any run started more than
\* DAYS_BACK days after it, is dropped like any item older than the window:
\* no output record is dated by the epoch, and the rows are exactly the items
\* whose date parses to an instant not before the cutoff.
C9_UnparseableDateDropped ==
    /\ \A n \in 1..Len(delivered) :
          Unparseable(delivered[n][2].pubDate) =>
              try_parse_date_rss(delivered[n][2].pubDate) = Epoch
    /\ \A n \in 1..Len(rows) : rows[n].date # Epoch
    /\ \A n \in 1..Len(unique) : unique[n].date # Epoch
    /\ Returned =>
          Len(rows) = Cardinality({n \in 1..Len(delivered) : InWindow(delivered[n])})

\* C9: a finished run that was handed an item whose date matches no format
\* and items that are in the output.
C9_Witness ==
    /\ pc = "exit"
    /\ \E n \in 1..Len(delivered) : Unparseable(delivered[n][2].pubDate)
    /\ unique # <<>>

\* C10: render_html emits one table body row per record, in the records'
\* order, and for an empty list exactly one placeholder row and no data row;
\* the placeholder row is not emitted when there is a record.
C10_OneRowPerRecord ==
    pc \in {"write", "exit"} =>
        IF unique = <<>>
        THEN html_out = <<PlaceholderRow>>
        ELSE /\ Len(html_out) = Len(unique)
             /\ \A n \in 1..Len(unique) :
                   /\ html_out[n].tr = "data"
                   /\ html_out[n].product = unique[n].product
                   /\ html_out[n].date = unique[n].date \div HoursPerDay
                   /\ html_out[n] = BodyRow(unique[n])

\* C10: a finished run that was handed items, none of them in the window,
\* and rendered the placeholder row.
C10_Witness ==
    /\ pc = "exit"
    /\ delivered # <<>>
    /\ unique = <<>>
    /\ html_out = <<PlaceholderRow>>

====
